---- MODULE Spec2Model ----
(***************************************************************************)
(* todo-rs: a CLI TODO list kept in the text file todo.txt.                *)
(*                                                                         *)
(* A string is a sequence of one-character strings, so that the byte-level *)
(* behaviour of the file operations (cursor position, truncation) and of   *)
(* the str methods (lines, split_once, trim, parse) is modelled as the     *)
(* code computes it.                                                       *)
(***************************************************************************)
EXTENDS Integers, Sequences, FiniteSets, TLC

VARIABLES
    file,        \* content of todo.txt
    op,          \* the command line of the last invocation
    pre,         \* content of todo.txt when the last invocation started
    status,      \* what the last invocation reported
    next_index,  \* the index the last "add" formatted into its line (0: none)
    assigned,    \* indices handed out by "add" since the store was last empty
                 \* by construction or by "clear"
    reused,      \* whether that index was already in assigned
    output,      \* what the last "list" printed after "TODO list:"
    wrote,       \* whether the last invocation truncated or wrote todo.txt
    panicked,    \* whether the last invocation hit get_file's panic
    \* two invocations running at the same time, "add" and "rm":
    pc,          \* where each is: "idle", "start", "read" (has read), "done"
    buf,         \* the file_content each has read
    args,        \* their arguments: add's message, rm's parsed index
    start,       \* content of todo.txt when the two started
    log          \* their reads and writes so far, in order

\* the variables of one invocation after the other
seqvars == <<op, pre, status, next_index, assigned, reused, output, wrote, panicked>>

\* the variables of the two invocations at the same time
racevars == <<pc, buf, args, start, log>>

vars == <<file, seqvars, racevars>>

----------------------------------------------------------------------------
(* Bounds of the model *)

\* "add" is not taken once the next index would exceed MaxIndex
MaxIndex == 5
\* no invocation is taken that would leave more than MaxFileLen bytes
MaxFileLen == 10
\* the -I arguments tried are the decimal strings of 0..MaxIndexArg, and "x"
MaxIndexArg == 3

\* the -M arguments tried (line-break-free)
Texts == { <<>>, <<"a">>, <<"a", "3", ".">>, <<" ", "a">>, <<"a", "-", "s">> }


----------------------------------------------------------------------------
(* str and char methods of the standard library, as main.rs uses them *)

Digits == <<"0", "1", "2", "3", "4", "5", "6", "7", "8", "9">>

is_digit(c) == \E d \in 1..Len(Digits) : Digits[d] = c

to_digit(c) == (CHOOSE d \in 1..Len(Digits) : Digits[d] = c) - 1

\* char::is_whitespace, on the ASCII characters of the model
is_whitespace(c) == c \in {" ", "\t", "\n", "\r"}

RECURSIVE trim_start(_)
trim_start(s) ==
    IF s # <<>> /\ is_whitespace(Head(s)) THEN trim_start(Tail(s)) ELSE s

RECURSIVE trim_end(_)
trim_end(s) ==
    IF s # <<>> /\ is_whitespace(s[Len(s)])
    THEN trim_end(SubSeq(s, 1, Len(s) - 1))
    ELSE s

trim(s) == trim_end(trim_start(s))

ends_with(s, pat) ==
    /\ Len(s) >= Len(pat)
    /\ SubSeq(s, Len(s) - Len(pat) + 1, Len(s)) = pat

\* str::trim_end_matches: strips the suffix repeatedly
RECURSIVE trim_end_matches(_, _)
trim_end_matches(s, pat) ==
    IF pat # <<>> /\ ends_with(s, pat)
    THEN trim_end_matches(SubSeq(s, 1, Len(s) - Len(pat)), pat)
    ELSE s

\* position of the first c in s, 0 when there is none
find(s, c) ==
    IF \E i \in 1..Len(s) : s[i] = c
    THEN CHOOSE i \in 1..Len(s) : s[i] = c /\ \A j \in 1..(i - 1) : s[j] # c
    ELSE 0

\* str::split_once(c) and str::splitn(2, c): Some((before, after)) or None
split_once(s, c) ==
    LET p == find(s, c) IN
    IF p = 0
    THEN [some |-> FALSE, before |-> <<>>, after |-> <<>>]
    ELSE [some |-> TRUE,
          before |-> SubSeq(s, 1, p - 1),
          after |-> SubSeq(s, p + 1, Len(s))]

RECURSIVE digits_value(_)
digits_value(s) ==
    IF s = <<>> THEN 0
    ELSE 10 * digits_value(SubSeq(s, 1, Len(s) - 1)) + to_digit(s[Len(s)])

\* str::parse::<usize>: an optional "+", then one or more decimal digits.
\* (The overflow error needs 20 digits, more than MaxFileLen allows.)
parse_usize(s) ==
    LET d == IF s # <<>> /\ Head(s) = "+" THEN Tail(s) ELSE s IN
    IF d = <<>> \/ \E i \in 1..Len(d) : ~is_digit(d[i])
    THEN [ok |-> FALSE, val |-> 0]
    ELSE [ok |-> TRUE, val |-> digits_value(d)]

\* usize's Display, as format!("{}", n) prints it
RECURSIVE to_string(_)
to_string(n) ==
    IF n < 10 THEN <<Digits[n + 1]>>
    ELSE to_string(n \div 10) \o <<Digits[(n % 10) + 1]>>

\* str::lines: split at "\n", a "\r" right before it is dropped too, and
\* no empty last line is produced for a content ending in "\n"
RECURSIVE lines(_)
lines(content) ==
    IF content = <<>> THEN <<>>
    ELSE LET p == find(content, "\n") IN
         IF p = 0 THEN <<content>>
         ELSE LET l == SubSeq(content, 1, p - 1) IN
              << IF ends_with(l, <<"\r">>) THEN SubSeq(l, 1, Len(l) - 1) ELSE l >>
              \o lines(SubSeq(content, p + 1, Len(content)))

----------------------------------------------------------------------------
(* The file and its handles *)

\* get_file with its check written with "or": either flag missing panics
get_file_or(content, read, write, append, truncate) ==
    [panic |-> (write = FALSE \/ append = FALSE),
     data |-> IF truncate THEN <<>> ELSE content,
     pos |-> 0,
     append |-> append]

\* get_file: OpenOptions .read .create(true) .write .append .truncate .open.
\* A fresh handle has its cursor at byte 0; truncate empties the file.
get_file(content, read, write, append, truncate) ==
    [panic |-> (write = FALSE /\ append = FALSE),
     data |-> IF truncate THEN <<>> ELSE content,
     pos |-> 0,
     append |-> append]

\* File::set_len(0)
set_len(h, size) == [h EXCEPT !.data = SubSeq(h.data, 1, size)]

\* File::read_to_string from the cursor
read_to_string(h) == SubSeq(h.data, h.pos + 1, Len(h.data))

\* File::write_all: at the end of the file for an append handle, else at the
\* cursor, over the bytes that are there
write_all(h, bytes) ==
    IF h.append
    THEN [h EXCEPT !.data = h.data \o bytes, !.pos = Len(h.data) + Len(bytes)]
    ELSE [h EXCEPT !.data = SubSeq(h.data, 1, h.pos) \o bytes
                            \o SubSeq(h.data, h.pos + Len(bytes) + 1, Len(h.data)),
                   !.pos = h.pos + Len(bytes)]

\* get_list_content opening its handle with truncate set
get_list_content_file_truncating(content) == get_file(content, TRUE, TRUE, FALSE, TRUE)

\* the handle get_list_content opens
get_list_content_file(content) == get_file(content, TRUE, TRUE, FALSE, FALSE)

get_list_content(content) == read_to_string(get_list_content_file(content))

\* the handle set_list_length opens
set_list_length_file(content) == get_file(content, FALSE, TRUE, FALSE, FALSE)

\* set_list_length without its set_len call
set_list_length_unset(content, size) == set_list_length_file(content).data

set_list_length(content, size) == set_len(set_list_length_file(content), size).data

----------------------------------------------------------------------------
(* The list operations *)

\* the index of a line, as find_next_index, remove_from_list and
\* mark_as_done parse it: line.split_once('.'), index.trim().parse::<usize>()
line_index(line) ==
    LET sp == split_once(line, ".") IN
    IF sp.some THEN parse_usize(trim(sp.before)) ELSE [ok |-> FALSE, val |-> 0]

\* max_index_of with the comparison left out: the last index wins
RECURSIVE max_index_of_last(_, _)
max_index_of_last(ls, max_index) ==
    IF ls = <<>> THEN max_index
    ELSE LET num == line_index(Head(ls)) IN
         max_index_of_last(Tail(ls), IF num.ok THEN num.val ELSE max_index)

RECURSIVE max_index_of(_, _)
max_index_of(ls, max_index) ==
    IF ls = <<>> THEN max_index
    ELSE LET num == line_index(Head(ls)) IN
         max_index_of(Tail(ls),
                      IF num.ok /\ num.val > max_index THEN num.val ELSE max_index)

\* find_next_index counting the lines instead of taking the largest index
find_next_index_count(content) == Len(lines(content)) + 1

find_next_index(content) == max_index_of(lines(content), 0) + 1

\* the handle append_to_list opens for its write
append_to_list_file(content) == get_file(content, TRUE, TRUE, FALSE, FALSE)

\* append_to_list from the content it has read (file_content) on: the line it
\* formats, written through a fresh handle on the file as it is by then
append_to_list_write(content, file_content, message) ==
    LET formatted_message ==
            to_string(find_next_index(file_content)) \o <<".", " ">> \o message \o <<"\n">>
    IN  write_all(append_to_list_file(content), formatted_message).data

append_to_list(content, message) ==
    append_to_list_write(content, get_list_content(content), message)

\* one line of remove_from_list's loop: what it pushes to new_content
remove_line(line, index_number) ==
    LET sp == split_once(line, ".") IN
    IF sp.some
    THEN LET num == parse_usize(trim(sp.before)) IN
         IF num.ok
         THEN IF num.val = index_number THEN <<>> ELSE line \o <<"\n">>
         ELSE <<>>
    ELSE line \o <<"\n">>

\* whether a line sets item_found, in remove_from_list and in mark_as_done
line_matches(line, index_number) ==
    LET num == line_index(line) IN num.ok /\ num.val = index_number

\* remove_lines leaving the loop at the first matching line: the lines after
\* it are copied as they are
RECURSIVE copy_lines(_)
copy_lines(ls) ==
    IF ls = <<>> THEN <<>> ELSE Head(ls) \o <<"\n">> \o copy_lines(Tail(ls))

RECURSIVE remove_lines_first(_, _)
remove_lines_first(ls, index_number) ==
    IF ls = <<>> THEN <<>>
    ELSE IF line_matches(Head(ls), index_number)
         THEN copy_lines(Tail(ls))
         ELSE remove_line(Head(ls), index_number)
              \o remove_lines_first(Tail(ls), index_number)

RECURSIVE remove_lines(_, _)
remove_lines(ls, index_number) ==
    IF ls = <<>> THEN <<>>
    ELSE remove_line(Head(ls), index_number) \o remove_lines(Tail(ls), index_number)

item_found(content, index_number) ==
    LET ls == lines(content) IN
    \E i \in 1..Len(ls) : line_matches(ls[i], index_number)

\* the handle remove_from_list opens for its write
remove_from_list_file(content) == get_file(content, TRUE, TRUE, FALSE, TRUE)

\* remove_from_list_write working on the content the file has when it writes,
\* as it would if the read and the write were one step under a lock
remove_from_list_write_fresh(content, file_content, index_number) ==
    LET new_content == remove_lines(lines(content), index_number)
        found == item_found(content, index_number)
    IN  IF ~found
        THEN [found |-> FALSE, wrote |-> FALSE, data |-> content]
        ELSE [found |-> TRUE, wrote |-> TRUE,
              data |-> write_all(set_len(remove_from_list_file(content), 0),
                                 new_content).data]

\* remove_from_list from the content it has read (file_content) on: the file
\* as it leaves it, whether the item was found, whether the file was written
remove_from_list_write(content, file_content, index_number) ==
    LET new_content == remove_lines(lines(file_content), index_number)
        found == item_found(file_content, index_number)
    IN  IF ~found
        THEN [found |-> FALSE, wrote |-> FALSE, data |-> content]
        ELSE [found |-> TRUE, wrote |-> TRUE,
              data |-> write_all(set_len(remove_from_list_file(content), 0),
                                 new_content).data]

remove_from_list(content, index_number) ==
    remove_from_list_write(content, get_list_content(content), index_number)

\* the line mark_as_done formats for a line whose index matched
updated_line(rest, index_number, done) ==
    LET trimmed_rest == trim_start(rest)
        marker == <<" ", "-", "s">>
        prefix == to_string(index_number) \o <<".", " ">>
    IN  IF done
        THEN IF ends_with(trimmed_rest, marker)
             THEN prefix \o trimmed_rest \o <<"\n">>
             ELSE prefix \o trimmed_rest \o marker \o <<"\n">>
        ELSE IF ends_with(trimmed_rest, marker)
             THEN prefix \o trim_end_matches(trimmed_rest, marker) \o <<"\n">>
             ELSE prefix \o trimmed_rest \o <<"\n">>

\* mark_line formatting every indexed line anew, not only the matching one
mark_line_normalising(line, index_number, done) ==
    LET sp == split_once(line, ".") IN
    IF sp.some
    THEN LET num == parse_usize(trim(sp.before)) IN
         IF num.ok
         THEN IF num.val = index_number
              THEN updated_line(sp.after, index_number, done)
              ELSE to_string(num.val) \o <<".", " ">> \o trim_start(sp.after) \o <<"\n">>
         ELSE <<>>
    ELSE line \o <<"\n">>

\* one line of mark_as_done's loop: what it pushes to new_content
mark_line(line, index_number, done) ==
    LET sp == split_once(line, ".") IN
    IF sp.some
    THEN LET num == parse_usize(trim(sp.before)) IN
         IF num.ok
         THEN IF num.val = index_number
              THEN updated_line(sp.after, index_number, done)
              ELSE line \o <<"\n">>
         ELSE <<>>
    ELSE line \o <<"\n">>

RECURSIVE mark_lines(_, _, _)
mark_lines(ls, index_number, done) ==
    IF ls = <<>> THEN <<>>
    ELSE mark_line(Head(ls), index_number, done)
         \o mark_lines(Tail(ls), index_number, done)

\* the handle mark_as_done opens for its write
mark_as_done_file(content) == get_file(content, TRUE, TRUE, FALSE, TRUE)

\* mark_as_done returning on not-found before it writes, as remove_from_list
mark_as_done_returning(content, index_number, done) ==
    LET file_content == get_list_content(content)
        new_content == mark_lines(lines(file_content), index_number, done)
        found == item_found(file_content, index_number)
    IN  IF ~found
        THEN [found |-> FALSE, wrote |-> FALSE, data |-> content]
        ELSE [found |-> TRUE, wrote |-> TRUE,
              data |-> write_all(set_len(mark_as_done_file(content), 0), new_content).data]

\* the file after mark_as_done (written whether or not the item was found),
\* and whether the item was found
mark_as_done(content, index_number, done) ==
    LET file_content == get_list_content(content)
        new_content == mark_lines(lines(file_content), index_number, done)
    IN  [found |-> item_found(file_content, index_number),
         wrote |-> TRUE,
         data |-> write_all(set_len(mark_as_done_file(content), 0), new_content).data]

\* the two escape sequences, each kept as one element of the output
StrikeOn == "\\x1b[9m"
StrikeOff == "\\x1b[0m"

\* formatted_line passing a line without a space through
formatted_line_unsplit(line) ==
    LET parts == split_once(line, " ") IN
    IF parts.some
    THEN LET number == parts.before
             rest == parts.after
         IN  IF ends_with(rest, <<"-", "s">>)
             THEN number \o <<" ", StrikeOn>>
                  \o trim_end(trim_start(trim_end_matches(rest, <<"-", "s">>)))
                  \o <<StrikeOff, "\n">>
             ELSE number \o <<" ">> \o trim_start(rest) \o <<"\n">>
    ELSE line \o <<"\n">>

\* one line of parse_list_content's loop: what it pushes to result
formatted_line(line) ==
    LET parts == split_once(line, " ") IN
    IF parts.some
    THEN LET number == parts.before
             rest == parts.after
         IN  IF ends_with(rest, <<"-", "s">>)
             THEN number \o <<" ", StrikeOn>>
                  \o trim_end(trim_start(trim_end_matches(rest, <<"-", "s">>)))
                  \o <<StrikeOff, "\n">>
             ELSE number \o <<" ">> \o trim_start(rest) \o <<"\n">>
    ELSE <<>>

RECURSIVE format_lines(_)
format_lines(ls) ==
    IF ls = <<>> THEN <<>> ELSE formatted_line(Head(ls)) \o format_lines(Tail(ls))

parse_list_content(content) == format_lines(lines(content))

----------------------------------------------------------------------------
(* The commands of main.  A value bound by \E x \in {e} is e, computed once. *)

IndexArgs == { to_string(i) : i \in 0..MaxIndexArg } \cup { <<"x">> }

NoOp == [command |-> "", message |-> <<>>, index |-> <<>>]

Init ==
    /\ file = <<>>
    /\ op = NoOp
    /\ pre = <<>>
    /\ status = "ok"
    /\ next_index = 0
    /\ assigned = {}
    /\ reused = FALSE
    /\ output = <<>>
    /\ wrote = FALSE
    /\ panicked = FALSE
    /\ pc = [add |-> "idle", rm |-> "idle"]
    /\ buf = [add |-> <<>>, rm |-> <<>>]
    /\ args = [message |-> <<>>, index |-> 0]
    /\ start = <<>>
    /\ log = <<>>

\* todo add -M message
Add(message) ==
    \E n \in {find_next_index(get_list_content(file))} :
    \E new \in {append_to_list(file, message)} :
    LET panic == get_list_content_file(file).panic \/ append_to_list_file(file).panic
    IN  /\ n <= MaxIndex
        /\ Len(new) <= MaxFileLen
        /\ file' = IF panic THEN file ELSE new
        /\ op' = [command |-> "add", message |-> message, index |-> <<>>]
        /\ pre' = file
        /\ status' = IF panic THEN "panic" ELSE "ok"
        /\ next_index' = IF panic THEN 0 ELSE n
        /\ assigned' = IF panic THEN assigned ELSE assigned \cup {n}
        /\ reused' = (~panic /\ n \in assigned)
        /\ output' = <<>>
        /\ wrote' = ~panic
        /\ panicked' = panic
        /\ UNCHANGED racevars

\* todo rm -I index
Rm(index) ==
    \E parsed \in {parse_usize(index)} :
    \E r \in {remove_from_list(file, parsed.val)} :
    LET panic == /\ parsed.ok
                 /\ \/ get_list_content_file(file).panic
                    \/ r.found /\ remove_from_list_file(file).panic
    IN  /\ op' = [command |-> "rm", message |-> <<>>, index |-> index]
        /\ pre' = file
        /\ file' = IF parsed.ok /\ ~panic THEN r.data ELSE file
        /\ status' = IF ~parsed.ok THEN "parse_error"
                     ELSE IF panic THEN "panic"
                     ELSE IF r.found THEN "ok" ELSE "not_found"
        /\ next_index' = 0
        /\ output' = <<>>
        /\ reused' = FALSE
        /\ wrote' = (parsed.ok /\ ~panic /\ r.wrote)
        /\ panicked' = panic
        /\ UNCHANGED <<assigned, racevars>>

\* todo done -I index (done = TRUE), todo undone -I index (done = FALSE)
SetDone(index, done) ==
    \E parsed \in {parse_usize(index)} :
    \E r \in {mark_as_done(file, parsed.val, done)} :
    LET panic == /\ parsed.ok
                 /\ \/ get_list_content_file(file).panic
                    \/ mark_as_done_file(file).panic
    IN  /\ parsed.ok => Len(r.data) <= MaxFileLen
        /\ op' = [command |-> IF done THEN "done" ELSE "undone",
                  message |-> <<>>, index |-> index]
        /\ pre' = file
        /\ file' = IF parsed.ok /\ ~panic THEN r.data ELSE file
        /\ status' = IF ~parsed.ok THEN "parse_error"
                     ELSE IF panic THEN "panic"
                     ELSE IF r.found THEN "ok" ELSE "not_found"
        /\ next_index' = 0
        /\ output' = <<>>
        /\ reused' = FALSE
        /\ wrote' = (parsed.ok /\ ~panic /\ r.wrote)
        /\ panicked' = panic
        /\ UNCHANGED <<assigned, racevars>>

\* todo list
List ==
    LET h == get_list_content_file(file) IN
    /\ op' = [command |-> "list", message |-> <<>>, index |-> <<>>]
    /\ pre' = file
    /\ file' = IF h.panic THEN file ELSE h.data
    /\ output' = IF h.panic THEN <<>> ELSE parse_list_content(read_to_string(h))
    /\ status' = IF h.panic THEN "panic" ELSE "ok"
    /\ next_index' = 0
    /\ reused' = FALSE
    /\ wrote' = FALSE
    /\ panicked' = h.panic
    /\ UNCHANGED <<assigned, racevars>>

\* todo clear
Clear ==
    LET panic == set_list_length_file(file).panic IN
    /\ op' = [command |-> "clear", message |-> <<>>, index |-> <<>>]
    /\ pre' = file
    /\ file' = IF panic THEN file ELSE set_list_length(file, 0)
    /\ status' = IF panic THEN "panic" ELSE "ok"
    /\ next_index' = 0
    /\ assigned' = IF panic THEN assigned ELSE {}
    /\ reused' = FALSE
    /\ output' = <<>>
    /\ wrote' = ~panic
    /\ panicked' = panic
    /\ UNCHANGED racevars

\* todo <anything else>
Invalid ==
    /\ op' = [command |-> "other", message |-> <<>>, index |-> <<>>]
    /\ pre' = file
    /\ status' = "invalid"
    /\ next_index' = 0
    /\ output' = <<>>
    /\ reused' = FALSE
    /\ wrote' = FALSE
    /\ panicked' = FALSE
    /\ UNCHANGED <<file, assigned, racevars>>

Next ==
    \/ \E message \in Texts : Add(message)
    \/ \E index \in IndexArgs : Rm(index)
    \/ \E index \in IndexArgs, done \in BOOLEAN : SetDone(index, done)
    \/ List
    \/ Clear
    \/ Invalid

Spec == Init /\ [][Next]_vars

----------------------------------------------------------------------------
(* "todo add" and "todo rm" started at the same time on one todo.txt.  Each   *)
(* process reads the file (get_list_content) and later, through a handle of   *)
(* its own, writes it; nothing orders the steps of one against the other's.   *)

\* stores the two start on: empty, after Add(t), after Add(""); Add(t)
RaceStores ==
    { <<>> }
    \cup { append_to_list(<<>>, t) : t \in Texts }
    \cup { append_to_list(append_to_list(<<>>, <<>>), t) : t \in Texts }

InitRace ==
    /\ file \in RaceStores
    /\ start = file
    /\ args \in [message : Texts, index : 0..MaxIndexArg]
    /\ pc = [add |-> "start", rm |-> "start"]
    /\ buf = [add |-> <<>>, rm |-> <<>>]
    /\ log = <<>>
    /\ op = NoOp
    /\ pre = <<>>
    /\ status = "ok"
    /\ next_index = 0
    /\ assigned = {}
    /\ reused = FALSE
    /\ output = <<>>
    /\ wrote = FALSE
    /\ panicked = FALSE

\* append_to_list: let file_content = get_list_content()
AddRead ==
    /\ pc.add = "start"
    /\ buf' = [buf EXCEPT !.add = get_list_content(file)]
    /\ pc' = [pc EXCEPT !.add = "read"]
    /\ log' = Append(log, "add_read")
    /\ UNCHANGED <<file, seqvars, args, start>>

\* append_to_list: find_next_index, format!, get_file, write_all
AddWrite ==
    /\ pc.add = "read"
    /\ file' = append_to_list_write(file, buf.add, args.message)
    /\ pc' = [pc EXCEPT !.add = "done"]
    /\ log' = Append(log, "add_write")
    /\ UNCHANGED <<seqvars, buf, args, start>>

\* remove_from_list: let file_content = get_list_content()
RmRead ==
    /\ pc.rm = "start"
    /\ buf' = [buf EXCEPT !.rm = get_list_content(file)]
    /\ pc' = [pc EXCEPT !.rm = "read"]
    /\ log' = Append(log, "rm_read")
    /\ UNCHANGED <<file, seqvars, args, start>>

\* remove_from_list: the loop, then the return on not-found or get_file,
\* set_len, write_all
RmWrite ==
    /\ pc.rm = "read"
    /\ \E r \in {remove_from_list_write(file, buf.rm, args.index)} :
        /\ file' = r.data
        /\ log' = Append(log, IF r.wrote THEN "rm_write" ELSE "rm_return")
    /\ pc' = [pc EXCEPT !.rm = "done"]
    /\ UNCHANGED <<seqvars, buf, args, start>>

NextRace ==
    \/ AddRead
    \/ AddWrite
    \/ RmRead
    \/ RmWrite

SpecRace == InitRace /\ [][NextRace]_vars

----------------------------------------------------------------------------
(* Vocabulary of the properties *)

\* the parsed -I argument of the last invocation
K == parse_usize(op.index).val

IsSetDone == op.command \in {"done", "undone"} /\ parse_usize(op.index).ok

IsRm == op.command = "rm" /\ parse_usize(op.index).ok

HasIndex(line) == line_index(line).ok

IndexOf(line) == line_index(line).val

\* the indices the lines of a content carry
IndicesIn(content) ==
    LET ls == lines(content) IN
    { IndexOf(ls[i]) : i \in { j \in 1..Len(ls) : HasIndex(ls[j]) } }

Largest(S) == IF S = {} THEN 0 ELSE CHOOSE x \in S : \A y \in S : y <= x

\* the line "add" is to write for an index and a text
Record(n, text) == to_string(n) \o <<".", " ">> \o text \o <<"\n">>

\* <index>. <text>, the index an unsigned decimal integer
WellShaped(line) ==
    \E p \in 2..(Len(line) - 1) :
        /\ \A i \in 1..(p - 1) : is_digit(line[i])
        /\ line[p] = "."
        /\ line[p + 1] = " "

OtherRecord(line) == HasIndex(line) /\ IndexOf(line) # K

Unindexed(line) == ~HasIndex(line)

\* the done-marker as the file format has it
Marker == <<" ", "-", "s">>

\* the content is the one record "<n>. <text>\n"
HoldsOnly(content, n) ==
    LET prefix == to_string(n) \o <<".", " ">> IN
    /\ Len(content) > Len(prefix)
    /\ SubSeq(content, 1, Len(prefix)) = prefix
    /\ Len(lines(content)) = 1
    /\ content[Len(content)] = "\n"

\* and this is its text
TextOf(content, n) == SubSeq(content, Len(to_string(n)) + 3, Len(content) - 1)

HasSpace(line) == \E i \in 1..Len(line) : line[i] = " "

\* the position of the period that ends the index of a well-shaped line
PeriodOf(line) == CHOOSE p \in 1..Len(line) : line[p] = "." /\ \A i \in 1..(p - 1) : line[i] # "."

\* what Render is to show for a well-shaped line
Rendered(line) ==
    LET p == PeriodOf(line) IN
    IF ends_with(line, Marker)
    THEN SubSeq(line, 1, p + 1) \o <<StrikeOn>>
         \o SubSeq(line, p + 2, Len(line) - Len(Marker)) \o <<StrikeOff>>
    ELSE line

RECURSIVE RenderedAll(_)
RenderedAll(ls) ==
    IF ls = <<>> THEN <<>>
    ELSE Rendered(Head(ls)) \o <<"\n">> \o RenderedAll(Tail(ls))

\* the two invocations have finished
BothDone == pc.add = "done" /\ pc.rm = "done"

\* both had read before either wrote
ReadsFirst == Len(log) >= 2 /\ {log[1], log[2]} = {"add_read", "rm_read"}

\* the results of running the two one after the other, in both orders
SerialAddRm == remove_from_list(append_to_list(start, args.message), args.index).data

SerialRmAdd == append_to_list(remove_from_list(start, args.index).data, args.message)

\* the line Add formats from the content the two started on
StaleLine == Record(1 + Largest(IndicesIn(start)), args.message)

\* bytes written at offset 0 of a content
Overwritten(content, bytes) == bytes \o SubSeq(content, Len(bytes) + 1, Len(content))

----------------------------------------------------------------------------
(* Properties *)

\* C1: after Add(text) the file is the content it had before, followed by
\* the one new line "<next_index>. <text>\n".
C1_AddKeepsContent ==
    op.command = "add" => file = pre \o Record(next_index, op.message)

\* C2: every non-empty line of the file has the shape "<index>. <text>",
\* optionally followed by " -s".
C2_LinesWellShaped ==
    \A i \in 1..Len(lines(file)) :
        lines(file)[i] # <<>> => WellShaped(lines(file)[i])

\* C3: the index an Add writes is 1 + the largest index parsed from the
\* lines the file held when the Add started (1 when no line carries one).
C3_AddWritesMaxPlusOne ==
    op.command = "add" =>
        /\ next_index = 1 + Largest(IndicesIn(pre))
        /\ HasIndex(lines(file)[1])
        /\ IndexOf(lines(file)[1]) = 1 + Largest(IndicesIn(pre))

\* C3 witness: an Add on a store whose largest index is above its number of
\* lines (records were removed or overwritten before)
C3_Witness ==
    /\ op.command = "add"
    /\ pre # <<>>
    /\ Largest(IndicesIn(pre)) > Len(lines(pre))

\* C4 (as claimed): no Add assigns an index that an earlier Add assigned.
C4_NeverReused == op.command = "add" => ~reused

\* C4 (amended): an Add assigns an index strictly greater than every index a
\* line of the file carries when the Add starts; an index can come back only
\* once no line carries it.
C4_AboveAllPresent ==
    op.command = "add" =>
        /\ \A n \in IndicesIn(pre) : n < next_index
        /\ \A n \in IndicesIn(pre) : n < IndexOf(lines(file)[1])

\* C4 witness: an Add hands out an index again, on a store that holds records
C4_Witness ==
    /\ op.command = "add"
    /\ reused
    /\ IndicesIn(pre) # {}

\* C5: no two lines of the file carry the same parsed leading index.
C5_IndicesUnique ==
    \A i, j \in 1..Len(lines(file)) :
        (i < j /\ HasIndex(lines(file)[i]) /\ HasIndex(lines(file)[j]))
            => IndexOf(lines(file)[i]) # IndexOf(lines(file)[j])

\* C6: Remove(k) on a store with at least one line of index k succeeds;
\* afterwards no line has index k and a second Remove(k) reports not-found.
C6_RemoveDropsAll ==
    (IsRm /\ K \in IndicesIn(pre)) =>
        /\ status = "ok"
        /\ K \notin IndicesIn(file)
        /\ ~remove_from_list(file, K).found
        /\ remove_from_list(file, K).data = file

\* C6 witness: a Remove(k) on a store in which two lines carried index k
C6_Witness ==
    /\ IsRm
    /\ status = "ok"
    /\ \E i, j \in 1..Len(lines(pre)) :
        /\ i < j
        /\ line_matches(lines(pre)[i], K)
        /\ line_matches(lines(pre)[j], K)

\* C7: Remove(k) and SetDone(k, d) leave the records of index other than k
\* byte-identical and in the same relative order.
C7_OthersPreserved ==
    (IsRm \/ IsSetDone) =>
        SelectSeq(lines(file), OtherRecord) = SelectSeq(lines(pre), OtherRecord)

\* C7 witness: a SetDone(k, TRUE) that changed the line of index k on a store
\* that holds a record of another index, written without a space after "."
C7_Witness ==
    /\ IsSetDone
    /\ status = "ok"
    /\ file # pre
    /\ \E i \in 1..Len(lines(pre)) :
        /\ OtherRecord(lines(pre)[i])
        /\ ~WellShaped(lines(pre)[i])

\* C8: every line from which no leading index can be parsed is still in the
\* file, verbatim and in the same relative order, after a Remove(k) or
\* SetDone(k, d) that rewrites the file.
C8_UnindexedPreserved ==
    ((IsRm /\ status = "ok") \/ IsSetDone) =>
        SelectSeq(lines(file), Unindexed) = SelectSeq(lines(pre), Unindexed)

\* C9: a Remove(k) or SetDone(k, d) that reports not-found leaves the file
\* content unchanged.
C9_NotFoundUnchanged ==
    status = "not_found" => file = pre

\* C10: on a record created by Add, SetDone(i, d); SetDone(i, d) leaves the
\* same file as a single SetDone(i, d).
C10_SetDoneIdempotent ==
    (IsSetDone /\ \E text \in Texts : pre = Record(K, text)) =>
        mark_as_done(file, K, op.command = "done").data = file

\* C11: on a not-done record created by Add(text), SetDone(i, true) followed
\* by SetDone(i, false) returns the file to the content it had before.
C11_DoneUndoneRoundTrip ==
    (/\ IsSetDone
     /\ op.command = "done"
     /\ \E text \in Texts : pre = Record(K, text) /\ ~ends_with(text, Marker)) =>
        mark_as_done(file, K, FALSE).data = pre

C13_RenderShowsAddedText ==
    (op.command = "add" /\ ~ends_with(op.message, Marker)) =>
        \E i \in 1..Len(lines(parse_list_content(get_list_content(file)))) :
            lines(parse_list_content(get_list_content(file)))[i]
                = to_string(next_index) \o <<".", " ">> \o op.message

\* C14: SetDone(i, d) appends " -s" to a text that does not end with it when
\* d is true, strips exactly one trailing " -s" when d is false, and in every
\* other case leaves the line byte-for-byte unchanged.
C14_SetDoneThreeWays ==
    (IsSetDone /\ status = "ok" /\ HoldsOnly(pre, K)) =>
        file = IF op.command = "done" /\ ~ends_with(TextOf(pre, K), Marker)
               THEN Record(K, TextOf(pre, K) \o Marker)
               ELSE IF op.command = "undone" /\ ends_with(TextOf(pre, K), Marker)
               THEN Record(K, SubSeq(TextOf(pre, K), 1,
                                     Len(TextOf(pre, K)) - Len(Marker)))
               ELSE pre

\* C15: Render shows a record struck through exactly when its line ends with
\* " -s" (index prefix, then the text without the marker between the escape
\* sequences), and every other record without escape sequence, text unchanged.
C15_StrikeIffMarker ==
    (/\ op.command = "list"
     /\ \A i \in 1..Len(lines(pre)) : WellShaped(lines(pre)[i])) =>
        output = RenderedAll(lines(pre))

\* C16: Render produces one output line for each file line that contains a
\* space, in file order, nothing for a line without one, and the empty string
\* exactly when no file line contains a space.
C16_OneLinePerSpacedLine ==
    op.command = "list" =>
        /\ Len(lines(output)) = Len(SelectSeq(lines(pre), HasSpace))
        /\ \A i \in 1..Len(lines(output)) :
            split_once(lines(output)[i], " ").before
                = split_once(SelectSeq(lines(pre), HasSpace)[i], " ").before
        /\ (output = <<>>) <=> (SelectSeq(lines(pre), HasSpace) = <<>>)

\* C16 witness: a listing of a file that has a line with a space and, before
\* it, a non-empty line without one
C16_Witness ==
    /\ op.command = "list"
    /\ \E i, j \in 1..Len(lines(pre)) :
        /\ i < j
        /\ lines(pre)[i] # <<>>
        /\ ~HasSpace(lines(pre)[i])
        /\ HasSpace(lines(pre)[j])

\* C17 (as claimed): every execution of Remove and of SetDone writes the
\* file, whether or not a line matched.
C17_AlwaysRewrites == (IsRm \/ IsSetDone) => wrote

\* C17 (amended): every SetDone writes the file, also on not-found; a Remove
\* writes it exactly when a line matched, and on not-found leaves it as it is.
C17_RewriteButRemoveNotFound ==
    /\ IsSetDone => wrote
    /\ IsRm => (wrote <=> status = "ok")
    /\ (IsRm /\ status = "not_found") => file = pre

\* C17 witness: a SetDone that reports not-found on a non-empty store and
\* has written the file
C17_Witness ==
    /\ IsSetDone
    /\ status = "not_found"
    /\ pre # <<>>
    /\ wrote

\* C18: two invocations on the same file are unsynchronized, each writing
\* what it computed from its own earlier read: when Add and Remove have both
\* read before either wrote, the file ends as the last writer's stale result
\* (Remove last: the content read without the lines of index k, the added
\* line lost; Add last: its line, indexed from the content read, written over
\* the start of what Remove left).
C18_WritesFromStaleReads ==
    (BothDone /\ ReadsFirst) =>
        file = IF args.index \notin IndicesIn(start)
               THEN Overwritten(start, StaleLine)
               ELSE IF log[Len(log)] = "rm_write"
               THEN remove_lines(lines(start), args.index)
               ELSE Overwritten(remove_lines(lines(start), args.index), StaleLine)

\* C18 witness: an interleaving with both reads before either write after
\* which the file differs from both serial results: it is what Remove alone
\* leaves, the Add is lost
C18_Witness ==
    /\ BothDone
    /\ ReadsFirst
    /\ file # SerialAddRm
    /\ file # SerialRmAdd
    /\ file = remove_from_list(start, args.index).data
    /\ args.index \in IndicesIn(start)

\* C19: the list command, an unrecognized command, and rm/done/undone with an
\* index that does not parse leave the file content byte-identical.
C19_ReadOnly ==
    (op.command \in {"list", "other"} \/ status = "parse_error") =>
        file = pre /\ ~wrote

\* C19 witness: a listing of a non-empty store that printed something
C19_Witness ==
    /\ op.command = "list"
    /\ pre # <<>>
    /\ output # <<>>

\* C20: no call of get_file in any command has write = false and
\* append = false: the panic is never hit.
C20_NoPanic == ~panicked /\ status # "panic"

\* C20 witness: a clear (the one call with read = false) of a non-empty store
C20_Witness ==
    /\ op.command = "clear"
    /\ pre # <<>>
    /\ file = <<>>
    /\ ~panicked

====
